---- MODULE Spec2Model ----
(***************************************************************************)
(* A model of astroquery's CDMS client (astroquery/cdms/core.py): the      *)
(* construction of the query payload, the two-request flow of              *)
(* query_lines_async, the name-to-tag lookup, and the fixed-width parser   *)
(* of _parse_result with its temperature dependent column labelling.       *)
(*                                                                         *)
(* Text is modelled as sequences of one-character strings, so that         *)
(* slicing, stripping, substring search, number parsing and number         *)
(* formatting are computed the way the Python code computes them.          *)
(***************************************************************************)
EXTENDS Integers, Sequences, FiniteSets, TLC

VARIABLES
    self,        \* the attributes set on the CDMSClass instance (its __dict__)
    catdir,      \* the rows of data/catdir.cat read by get_species_table
    call,        \* arguments and result of the last query_lines_async call
    parsed,      \* argument and result of the last _parse_result call
    history,     \* one entry per query_lines_async call made on the instance
    parse_of,    \* which call's response the last _parse_result was given, and when
    heasarc      \* arguments and result of the last Heasarc.query_object call

vars == <<self, catdir, call, parsed, history, parse_of, heasarc>>

----------------------------------------------------------------------------
(* Bounds of the model.                                                    *)

\* the longest frameset a POST response holds
MaxFrames == 2
\* the longest response text, in lines, handed to _parse_result
MaxLines == 3
\* the most query_lines_async calls made on the instance in one behaviour
MaxCalls == 2

----------------------------------------------------------------------------
(* Python strings, as sequences of characters.                             *)

Digit == {"0", "1", "2", "3", "4", "5", "6", "7", "8", "9"}

DigitVal(c) ==
    CASE c = "0" -> 0 [] c = "1" -> 1 [] c = "2" -> 2 [] c = "3" -> 3
      [] c = "4" -> 4 [] c = "5" -> 5 [] c = "6" -> 6 [] c = "7" -> 7
      [] c = "8" -> 8 [] c = "9" -> 9

DigitChar(d) ==
    CASE d = 0 -> "0" [] d = 1 -> "1" [] d = 2 -> "2" [] d = 3 -> "3"
      [] d = 4 -> "4" [] d = 5 -> "5" [] d = 6 -> "6" [] d = 7 -> "7"
      [] d = 8 -> "8" [] d = 9 -> "9"

Min(a, b) == IF a <= b THEN a ELSE b

Max(a, b) == IF a >= b THEN a ELSE b

\* s[start:end] with 0-based, half-open, clamped indices; end = -1 stands for None
PySlice(s, start, end) ==
    LET hi == IF end = -1 THEN Len(s) ELSE Min(end, Len(s))
        lo == Min(start, Len(s))
    IN  IF lo >= hi THEN << >> ELSE SubSeq(s, lo + 1, hi)

\* sub in s
str_contains(s, sub) ==
    \E i \in 0..(Len(s) - Len(sub)) : SubSeq(s, i + 1, i + Len(sub)) = sub

\* s.startswith(prefix)
str_startswith(s, prefix) ==
    Len(s) >= Len(prefix) /\ SubSeq(s, 1, Len(prefix)) = prefix

isspace(c) == c = " "

\* s.strip()
str_strip(s) ==
    LET inked == {i \in 1..Len(s) : ~isspace(s[i])}
    IN  IF inked = {} THEN << >>
        ELSE LET first == CHOOSE i \in inked : \A j \in inked : i <= j
                 last  == CHOOSE i \in inked : \A j \in inked : i >= j
             IN  SubSeq(s, first, last)

\* s.lower(), over the letters the model's names use
chr_lower(c) ==
    CASE c = "C" -> "c" [] c = "N" -> "n" [] c = "O" -> "o" [] c = "H" -> "h"
      [] c = "X" -> "x" [] OTHER -> c

str_lower(s) == [i \in 1..Len(s) |-> chr_lower(s[i])]

\* the decimal digits of a natural number
RECURSIVE nat_digits(_)
nat_digits(n) ==
    IF n < 10 THEN <<DigitChar(n)>>
    ELSE Append(nat_digits(n \div 10), DigitChar(n % 10))

\* f"{val:06d}": sign, then zeros up to a width of six, then the digits
format_06d(val) ==
    LET sign == IF val < 0 THEN <<"-">> ELSE << >>
        digs == nat_digits(IF val < 0 THEN -val ELSE val)
        pad  == Max(0, 6 - Len(sign) - Len(digs))
    IN  sign \o [i \in 1..pad |-> "0"] \o digs

\* int(s) for a string of digits
RECURSIVE digits_value(_)
digits_value(s) ==
    IF s = << >> THEN 0
    ELSE 10 * digits_value(SubSeq(s, 1, Len(s) - 1)) + DigitVal(s[Len(s)])

----------------------------------------------------------------------------
(* Values shared by the operations.                                        *)

None == [kind |-> "None"]

Str(s) == [kind |-> "str", s |-> s]

\* a raised exception / a returned value, as the result of a step
Raise(e) == [kind |-> "raise", error |-> e]

\* conf.server, the class attribute URL
URL ==
    <<"h","t","t","p","s",":","/","/","c","d","m","s",".","a","s","t","r","o",
      ".","u","n","i","-","k","o","e","l","n",".","d","e","/","c","g","i","-",
      "b","i","n","/","c","d","m","s","s","e","a","r","c","h">>

\* conf.timeout, the class attribute TIMEOUT
TIMEOUT == 60

----------------------------------------------------------------------------
(* astropy quantities. A frequency in GHz is held in units of 1e-6 GHz     *)
(* (kHz), so that the conversions of the model's inputs are exact.         *)

Quantity(v, u) == [kind |-> "Quantity", value |-> v, unit |-> u]

\* q.to(u.GHz, u.spectral()): frequencies rescale, wavelengths become c / lambda
\* (c = 299792458 m/s), any other unit raises UnitConversionError
to_GHz(q) ==
    CASE q.unit = "GHz" -> [ok |-> TRUE, value |-> q.value * 1000000]
      [] q.unit = "MHz" -> [ok |-> TRUE, value |-> q.value * 1000]
      [] q.unit = "mm"  -> [ok |-> TRUE, value |-> 299792458 \div q.value]
      [] OTHER          -> [ok |-> FALSE, value |-> 0]

----------------------------------------------------------------------------
(* The catalog directory and the name-to-tag lookup.                       *)

\* get_species_table: the table read from catdir.cat, one row per species with
\* the columns tag, molecule, #lines (the partition function columns are not
\* used by the lookup)
get_species_table == catdir

\* result[i][:] on an astropy table: row i, sliced with [:], falls through to
\* table.columns[:][i], which is the whole column number i
Table_row_slice(result, i) == [r \in 1..Len(result) |-> result[r][i + 1]]

\* d[key] = val on an insertion-ordered dict held as a sequence of <<key, val>>
dict_set(d, key, val) ==
    IF \E i \in 1..Len(d) : d[i][1] = key
    THEN [i \in 1..Len(d) |-> IF d[i][1] = key THEN <<key, val>> ELSE d[i]]
    ELSE Append(d, <<key, val>>)

\* dict(zip(keys, values))
RECURSIVE dict_zip(_, _)
dict_zip(keys, values) ==
    LET n == Min(Len(keys), Len(values))
    IN  IF n = 0 THEN << >>
        ELSE dict_set(dict_zip(SubSeq(keys, 1, n - 1), SubSeq(values, 1, n - 1)),
                      keys[n], values[n])

\* build_lookup taking its values from the wrong column of the table
build_lookup_wrong_column ==
    LET result == get_species_table
        keys   == Table_row_slice(result, 1)
        values == Table_row_slice(result, 2)
    IN  dict_zip(keys, values)

build_lookup ==
    LET result == get_species_table
        keys   == Table_row_slice(result, 1)    \* convert NAME column to list
        values == Table_row_slice(result, 0)    \* convert TAG column to list
    IN  dict_zip(keys, values)

\* re.compile(s, flags).search(k) for a pattern s without metacharacters:
\* s occurs in k, letter case ignored under re.IGNORECASE (the flag 2)
re_search(s, flags, k) ==
    IF flags = 2 THEN str_contains(str_lower(k), str_lower(s))
    ELSE str_contains(k, s)

\* Lookuptable.find(s, flags): the entries whose key the pattern matches, in
\* the order of the dict
RECURSIVE Lookuptable_find(_, _, _)
Lookuptable_find(lookup, s, flags) ==
    IF lookup = << >> THEN << >>
    ELSE LET rest == Lookuptable_find(Tail(lookup), s, flags)
         IN  IF re_search(s, flags, Head(lookup)[1])
             THEN <<Head(lookup)>> \o rest ELSE rest

----------------------------------------------------------------------------
(* query_lines_async.                                                      *)

\* lines 98-106 without the swap of lines 102-103
frequency_items_unswapped(min_frequency, max_frequency) ==
    IF min_frequency # None /\ max_frequency # None
    THEN LET lo == to_GHz(min_frequency)
             hi == to_GHz(max_frequency)
         IN  IF ~lo.ok \/ ~hi.ok THEN Raise("UnitConversionError")
             ELSE [kind  |-> "items",
                   items |-> << <<"MinNu", lo.value>>, <<"MaxNu", hi.value>> >>]
    ELSE [kind |-> "items", items |-> << >>]

\* lines 98-106: the frequency entries of the payload, or the exception the
\* unit conversion raises
frequency_items(min_frequency, max_frequency) ==
    IF min_frequency # None /\ max_frequency # None
    THEN LET lo == to_GHz(min_frequency)
             hi == to_GHz(max_frequency)
             swap == lo.value > hi.value
         IN  IF ~lo.ok \/ ~hi.ok THEN Raise("UnitConversionError")
             ELSE [kind  |-> "items",
                   items |-> << <<"MinNu", IF swap THEN hi.value ELSE lo.value>>,
                                <<"MaxNu", IF swap THEN lo.value ELSE hi.value>> >>]
    ELSE [kind |-> "items", items |-> << >>]

\* lines 108-115: the entries every payload holds
fixed_items(min_strength, temperature_for_intensity) ==
    << <<"UnitNu", "GHz">>,
       <<"StrLim", min_strength>>,
       <<"temp", temperature_for_intensity>>,
       <<"logscale", "yes">>,
       <<"mol_sort_query", "tag">>,
       <<"sort", "frequency">>,
       <<"output", "text">>,
       <<"but_action", "Submit">> >>

\* lines 120-131: the 'Molecules' entry, or the exception raised on the way;
\* lookup is what build_lookup returned
molecule_items(molecule, flags, parse_name_locally, lookup) ==
    IF molecule # None
    THEN IF parse_name_locally
         THEN LET luts == Lookuptable_find(lookup, molecule.s, flags)
                  strs == [i \in 1..Len(luts) |->
                              format_06d(luts[i][2]) \o <<" ">> \o luts[i][1]]
              IN  IF Len(strs) = 0 THEN Raise("IndexError")
                  ELSE IF Len(molecule.s) = 0
                       THEN Raise("ValueError: No matching species found")
                       ELSE [kind |-> "items", items |-> << <<"Molecules", strs[1]>> >>]
         ELSE [kind |-> "items", items |-> << <<"Molecules", molecule.s>> >>]
    ELSE [kind |-> "items", items |-> << >>]

\* self._request(...): the request as it is issued
request(method, url, data, cache) ==
    [method |-> method, url |-> url, data |-> data,
     timeout |-> TIMEOUT, cache |-> cache]

\* a raise_for_status that lets every status through
raise_for_status_never(response) == FALSE

\* response.raise_for_status(): HTTPError for a 4xx or 5xx status
raise_for_status(response) == response.status_code >= 400

\* line 146: [x.attrs['src'] for x in soup.findAll('frame')]
frame_urls(frames) ==
    IF \E i \in 1..Len(frames) : "src" \notin DOMAIN frames[i]
    THEN Raise("KeyError")
    ELSE [kind |-> "urls", urls |-> [i \in 1..Len(frames) |-> frames[i].src]]

\* the test of line 148
is_table_url(url) ==
    /\ str_contains(url, <<"t","a","b">>)
    /\ ~str_contains(url, <<"h","e","a","d">>)

\* lines 145-150: the loop that stops at the first url passing the test
locate_table(urls) ==
    LET hits == {i \in 1..Len(urls) : is_table_url(urls[i])}
    IN  IF hits = {} THEN [ok |-> FALSE, url |-> << >>]
        ELSE [ok |-> TRUE, url |-> urls[CHOOSE i \in hits : \A j \in hits : i <= j]]

\* s.split(sep)[0]
split_first(s, sep) ==
    LET at == {i \in 0..(Len(s) - Len(sep)) : SubSeq(s, i + 1, i + Len(sep)) = sep}
    IN  IF at = {} THEN s
        ELSE SubSeq(s, 1, CHOOSE i \in at : \A j \in at : i <= j)

\* lines 154-155
full_url(url) == split_first(URL, <<"c","g","i","-","b","i","n">>) \o <<"/">> \o url

\* an assignment that keeps the value an attribute already has
setattr_if_unset(obj, name, value) ==
    IF name \in DOMAIN obj THEN obj
    ELSE [a \in DOMAIN obj \cup {name} |-> IF a = name THEN value ELSE obj[a]]

\* obj.name = value on the instance's attributes
setattr(obj, name, value) ==
    [a \in DOMAIN obj \cup {name} |-> IF a = name THEN value ELSE obj[a]]

\* the instance before any attribute is set on it
NoAttributes == [a \in {} |-> 0]

NotCalled ==
    [outcome |-> "not called", args |-> None, post |-> None, get |-> None,
     payload |-> << >>, requests |-> << >>, response |-> None]

\* query_lines_async, lines 96-160. post and get are what the server does with
\* the two requests, should they be issued: Raise(e) when self._request raises
\* e, or the response it returns
query_lines_async(min_frequency, max_frequency, min_strength, molecule, temperature_for_intensity, flags, parse_name_locally, get_query_payload, cache, post, get) ==
    LET args == [min_frequency |-> min_frequency, max_frequency |-> max_frequency,
                 min_strength |-> min_strength, molecule |-> molecule,
                 temperature_for_intensity |-> temperature_for_intensity,
                 flags |-> flags, parse_name_locally |-> parse_name_locally,
                 get_query_payload |-> get_query_payload, cache |-> cache]
        freq == frequency_items(min_frequency, max_frequency)
        self1 == setattr(self, "_last_query_temperature", temperature_for_intensity)
        lookup == build_lookup
        self2 == IF molecule # None /\ parse_name_locally
                 THEN setattr(self1, "lookup_ids", lookup) ELSE self1
        mol == molecule_items(molecule, flags, parse_name_locally, lookup)
        payload == freq.items
                   \o fixed_items(min_strength, temperature_for_intensity)
                   \o mol.items
        post_request == request("POST", URL, payload, cache)
        urls == frame_urls(post.frames)
        found == locate_table(urls.urls)
        get_request == request("GET", full_url(found.url), << >>, cache)
        ends(outcome, items, requests, response) ==
            call' = [outcome |-> outcome, args |-> args, post |-> post, get |-> get,
                     payload |-> items, requests |-> requests, response |-> response]
    IN  IF freq.kind = "raise"
        THEN self' = self /\ ends(freq.error, << >>, << >>, None)
        ELSE IF mol.kind = "raise"
        THEN self' = self2 /\ ends(mol.error, << >>, << >>, None)
        ELSE /\ self' = self2
             /\ IF get_query_payload
                THEN ends("payload", payload, << >>, None)
                ELSE IF post.kind = "raise"
                THEN ends(post.error, payload, <<post_request>>, None)
                ELSE IF raise_for_status(post)
                THEN ends("HTTPError", payload, <<post_request>>, None)
                ELSE IF urls.kind = "raise"
                THEN ends(urls.error, payload, <<post_request>>, None)
                ELSE IF ~found.ok
                THEN ends("ValueError: Did not find table in response",
                          payload, <<post_request>>, None)
                ELSE IF get.kind = "raise"
                THEN ends(get.error, payload, <<post_request, get_request>>, None)
                ELSE ends("response", payload, <<post_request, get_request>>, get)

----------------------------------------------------------------------------
(* _parse_result: the reading of the fixed-width table.                    *)

\* a response, with its text as the sequence of its lines
Response(status_code, text) ==
    [kind |-> "response", status_code |-> status_code, text |-> text]

PreOpen == <<"<","p","r","e",">">>

PreClose == <<"<","/","p","r","e",">">>

\* the emptiness test looking for another message
zero_lines_found_other(text) ==
    \E i \in 1..Len(text) :
        str_contains(text[i], <<"N","o"," ","l","i","n","e","s">>)

\* line 201: 'Zero lines were found' in response.text
zero_lines_found(text) ==
    \E i \in 1..Len(text) :
        str_contains(text[i], <<"Z","e","r","o"," ","l","i","n","e","s"," ",
                                "w","e","r","e"," ","f","o","u","n","d">>)

\* lines 204-205: BeautifulSoup(response.text, 'html.parser').find('pre').text,
\* the lines between the first <pre> and the </pre> that closes it (the end of
\* the document when it is not closed); None when there is no <pre>
soup_find_pre_text(text) ==
    LET opens == {i \in 1..Len(text) : text[i] = PreOpen}
    IN  IF opens = {} THEN None
        ELSE LET open   == CHOOSE i \in opens : \A j \in opens : i <= j
                 closes == {i \in (open + 1)..Len(text) : text[i] = PreClose}
                 close  == IF closes = {} THEN Len(text) + 1
                           ELSE CHOOSE i \in closes : \A j \in closes : i <= j
                 inner  == SubSeq(text, open + 1, close - 1)
             IN  [kind |-> "text", lines |-> SelectSeq(inner, LAMBDA l : l # PreOpen)]

\* lines 207-222: the dict starts, in insertion order
starts ==
    << <<"FREQ", 0>>, <<"ERR", 14>>, <<"LGINT", 25>>, <<"DR", 36>>,
       <<"ELO", 38>>, <<"GUP", 48>>, <<"TAG", 51>>, <<"QNFMT", 57>>,
       <<"Ju", 61>>, <<"Ku", 63>>, <<"vu", 65>>, <<"Jl", 67>>,
       <<"Kl", 69>>, <<"vl", 71>>, <<"F", 73>>, <<"name", 89>> >>

\* line 226: names=list(starts.keys())
names == [i \in 1..Len(starts) |-> starts[i][1]]

\* line 227: col_starts=list(starts.values())
col_starts == [i \in 1..Len(starts) |-> starts[i][2]]

\* column ends taken as the character before the next start
col_ends_before_next ==
    [i \in 1..Len(col_starts) |->
        IF i < Len(col_starts) THEN col_starts[i + 1] - 1 ELSE -1]

\* the reader's column ends when only col_starts is given: each column ends
\* where the next starts, the last one at the end of the line (None, here -1)
col_ends ==
    [i \in 1..Len(col_starts) |->
        IF i < Len(col_starts) THEN col_starts[i + 1] ELSE -1]

\* line 225: re.match(r'THIS|^\s{12,14}\d{4,6}.*', line)
comment_match(line) ==
    \/ str_startswith(line, <<"T","H","I","S">>)
    \/ \E n \in 12..14 :
          /\ Len(line) >= n + 4
          /\ \A i \in 1..n : isspace(line[i])
          /\ \A i \in (n + 1)..(n + 4) : line[i] \in Digit

\* the reader's data lines: the lines that are not blank and not comments
data_lines(lines) ==
    SelectSeq(lines, LAMBDA l : str_strip(l) # << >> /\ ~comment_match(l))

\* the reader's split of one line: each column's slice, stripped
split_line(line) ==
    [i \in 1..Len(col_starts) |-> str_strip(PySlice(line, col_starts[i], col_ends[i]))]

is_digits(s) == s # << >> /\ \A i \in 1..Len(s) : s[i] \in Digit

unsigned(s) == IF s # << >> /\ s[1] \in {"+", "-"} THEN Tail(s) ELSE s

negative(s) == s # << >> /\ s[1] = "-"

\* int(s) succeeds
is_int_str(s) == is_digits(unsigned(s))

\* float(s) succeeds, for the plain decimal notation of the catalog
is_float_str(s) ==
    LET u    == unsigned(s)
        dots == {i \in 1..Len(u) : u[i] = "."}
    IN  /\ Cardinality(dots) <= 1
        /\ \E i \in 1..Len(u) : u[i] \in Digit
        /\ \A i \in 1..Len(u) : u[i] \in Digit \cup {"."}

Masked == [t |-> "masked"]

\* int(s)
to_int(s) ==
    [t |-> "int", v |-> IF negative(s) THEN -digits_value(unsigned(s))
                        ELSE digits_value(unsigned(s))]

\* a fraction without its trailing zeros
RECURSIVE rstrip_zeros(_)
rstrip_zeros(s) ==
    IF s # << >> /\ s[Len(s)] = "0" THEN rstrip_zeros(SubSeq(s, 1, Len(s) - 1))
    ELSE s

\* float(s), held exactly as m * 10^-e
to_float(s) ==
    LET u    == unsigned(s)
        dots == {i \in 1..Len(u) : u[i] = "."}
        dot  == IF dots = {} THEN Len(u) + 1 ELSE CHOOSE i \in dots : TRUE
        whole == SubSeq(u, 1, dot - 1)
        frac  == rstrip_zeros(SubSeq(u, dot + 1, Len(u)))
        m     == digits_value(whole \o frac)
    IN  [t |-> "float", m |-> IF negative(s) THEN -m ELSE m, e |-> Len(frac)]

to_str(s) == [t |-> "str", s |-> s]

\* the reader's conversion of a column of strings: the empty string is a masked
\* value, and the others are all int, or else all float, or else all str
convert_column(vals) ==
    LET filled == {i \in 1..Len(vals) : vals[i] # << >>}
        conv(f(_)) == [i \in 1..Len(vals) |-> IF i \in filled THEN f(vals[i]) ELSE Masked]
    IN  IF \A i \in filled : is_int_str(vals[i]) THEN conv(to_int)
        ELSE IF \A i \in filled : is_float_str(vals[i]) THEN conv(to_float)
        ELSE conv(to_str)

\* lines 224-228: ascii.read(text, header_start=None, data_start=0, comment=...,
\* names=..., col_starts=..., format='fixed_width'): the table as its columns,
\* or InconsistentTableError when no data line is left
ascii_read(lines) ==
    LET rows == data_lines(lines)
        strs == [r \in 1..Len(rows) |-> split_line(rows[r])]
    IN  IF rows = << >> THEN Raise("InconsistentTableError")
        ELSE [kind |-> "table",
              columns |-> [c \in 1..Len(names) |->
                  [name |-> names[c], unit |-> "",
                   data |-> convert_column([r \in 1..Len(rows) |-> strs[r][c]])]]]

----------------------------------------------------------------------------
(* _parse_result: units, the intensity column, and the whole method.       *)

\* result[name].unit = unit
set_unit(columns, name, unit) ==
    [c \in 1..Len(columns) |->
        IF columns[c].name = name THEN [columns[c] EXCEPT !.unit = unit]
        ELSE columns[c]]

\* result.rename_column(old, new)
rename_column(columns, old, new) ==
    [c \in 1..Len(columns) |->
        IF columns[c].name = old THEN [columns[c] EXCEPT !.name = new]
        ELSE columns[c]]

\* the intensity column left as LGINT whatever the temperature is
label_intensity_never(columns, temperature) ==
    set_unit(columns, "LGINT", "nm2 MHz")

\* lines 236-240
label_intensity(columns, temperature) ==
    IF temperature = 0
    THEN set_unit(rename_column(columns, "LGINT", "LGAIJ"), "LGAIJ", "1 / s")
    ELSE set_unit(columns, "LGINT", "nm2 MHz")

NotParsed ==
    [outcome |-> "not called", response |-> None, steps |-> << >>, table |-> << >>]

\* _parse_result, lines 201-243. steps lists what was done before the method
\* ended: the parse of the HTML, the read of the table, the units, the labelling
_parse_result(response) ==
    LET pre  == soup_find_pre_text(response.text)
        read == ascii_read(pre.lines)
        t1   == set_unit(set_unit(read.columns, "FREQ", "MHz"), "ERR", "MHz")
        t2   == label_intensity(t1, self["_last_query_temperature"])
        t3   == set_unit(t2, "ELO", "1 / cm")
        ends(outcome, steps, table) ==
            parsed' = [outcome |-> outcome, response |-> response,
                       steps |-> steps, table |-> table]
    IN  IF zero_lines_found(response.text)
        THEN ends("ValueError: Response was empty", << >>, << >>)
        ELSE IF pre = None
        THEN ends("AttributeError", <<"BeautifulSoup">>, << >>)
        ELSE IF read.kind = "raise"
        THEN ends(read.error, <<"BeautifulSoup", "ascii.read">>, << >>)
        ELSE IF "_last_query_temperature" \notin DOMAIN self
        THEN ends("AttributeError", <<"BeautifulSoup", "ascii.read", "unit">>, << >>)
        ELSE ends("table", <<"BeautifulSoup", "ascii.read", "unit", "label">>, t3)

----------------------------------------------------------------------------
(* Heasarc.query_object, as the specification describes it: a keyword      *)
(* argument that is no parameter of the query and no column of the         *)
(* mission's table is refused before anything is sent.                     *)

\* the keyword arguments query_object itself takes
query_parameters == {"radius", "time", "resultmax"}

\* the columns of a mission's table that may be filtered on
mission_columns(mission) ==
    IF mission = "integral_rev3_scw" THEN {"good_isgri", "good_jemx"}
    ELSE {"exposure"}

\* every keyword taken for a column of the mission
recognised_any(mission, key) == TRUE

recognised(mission, key) ==
    key \in query_parameters \cup mission_columns(mission)

HeasarcNotCalled ==
    [outcome |-> "not called", mission |-> "", kwargs |-> {}, requests |-> << >>]

\* reply is what the archive does with the request, should it be sent
Heasarc_query_object(object_name, mission, kwargs, reply) ==
    heasarc' =
        IF \E key \in kwargs : ~recognised(mission, key)
        THEN [outcome |-> "ValueError", mission |-> mission, kwargs |-> kwargs,
              requests |-> << >>]
        ELSE [outcome |-> reply, mission |-> mission, kwargs |-> kwargs,
              requests |-> <<[object_name |-> object_name, mission |-> mission,
                              filters |-> kwargs]>>]

----------------------------------------------------------------------------
(* The texts the model reads.                                              *)

\* a card image of the catalog, as in the docstring of query_lines_async:
\* "  103614.4941      2.237    -4.1826  3  202.8941  8 185052356 4 1 4 4 0 4 3 2 1 3 0 3     H2O+"
LineA ==
    <<" "," ","1","0","3","6","1","4",".","4","9","4","1"," "," "," "," ",
      " "," ","2",".","2","3","7"," "," "," "," ","-","4",".","1","8","2",
      "6"," "," ","3"," "," ","2","0","2",".","8","9","4","1"," "," ","8",
      " ","1","8","5","0","5","2","3","5","6"," ","4"," ","1"," ","4"," ",
      "4"," ","0"," ","4"," ","3"," ","2"," ","1"," ","3"," ","0"," ","3",
      " "," "," "," "," ","H","2","O","+">>

\* a card image with a laboratory tag (negative) and no hyperfine numbers:
\* "  107814.8763      148.6    -5.4438  3  878.1191 12-185052356 6 5 1 7 1 6                 H2O+"
LineB ==
    <<" "," ","1","0","7","8","1","4",".","8","7","6","3"," "," "," "," ",
      " "," ","1","4","8",".","6"," "," "," "," ","-","5",".","4","4","3",
      "8"," "," ","3"," "," ","8","7","8",".","1","1","9","1"," ","1","2",
      "-","1","8","5","0","5","2","3","5","6"," ","6"," ","5"," ","1"," ",
      "7"," ","1"," ","6"," "," "," "," "," "," "," "," "," "," "," "," ",
      " "," "," "," "," ","H","2","O","+">>

\* a card image cut off after QNFMT
LineShort ==
    <<" "," ","1","0","7","8","1","4",".","8","7","6","3"," "," "," "," ",
      " "," ","1","4","8",".","6"," "," "," "," ","-","5",".","4","4","3",
      "8"," "," ","3"," "," ","8","7","8",".","1","1","9","1"," ","1","2",
      "-","1","8","5","0","5","2","3","5","6">>

\* a banner line
LineTHIS ==
    <<"T","H","I","S"," ","i","s"," ","a"," ","b","a","n","n","e","r">>

\* an indented species header: 13 spaces, then a tag
LineHeader ==
    <<" "," "," "," "," "," "," "," "," "," "," "," "," ","1","8","5","0",
      "5"," ","H","2","O","+">>

LineBlank == <<" ", " ">>

\* the message of a query that matched nothing
LineZero ==
    <<"Z","e","r","o"," ","l","i","n","e","s"," ","w","e","r","e"," ","f",
      "o","u","n","d",".">>

----------------------------------------------------------------------------
(* The inputs the operations are given.                                    *)

\* the sequences over S of length at most n
RECURSIVE SeqsUpTo(_, _)
SeqsUpTo(S, n) ==
    IF n = 0 THEN {<< >>}
    ELSE LET shorter == SeqsUpTo(S, n - 1)
         IN  shorter \cup {Append(q, x) : q \in shorter, x \in S}

\* min_frequency and max_frequency: None, frequencies, a wavelength (2 mm is
\* 149.896229 GHz) and a quantity that is no spectral one
Frequencies ==
    {None, Quantity(100, "GHz"), Quantity(200, "GHz"), Quantity(150000, "MHz"),
     Quantity(2, "mm"), Quantity(1, "s")}

Temperatures == {0, 300}

\* molecule: None, or a pattern
Molecules ==
    {None, Str(<<"C","N">>), Str(<<"c","o">>), Str(<<"X","X">>), Str(<< >>)}

\* a catalog directory: rows of tag, molecule, #lines
Catalog1 ==
    << <<26504, <<"C","N">>, 41>>, <<28503, <<"C","O">>, 92>>,
       <<29507, <<"H","C","O","+">>, 38>> >>

\* a catalog directory in which a name is part of the name before it
Catalog2 ==
    << <<26503, <<"C","N","-">>, 17>>, <<26504, <<"C","N">>, 41>>,
       <<28503, <<"C","O">>, 92>> >>

Catalogs == {Catalog1, Catalog2}

\* the frame elements of a POST response: data tables, a table header, the
\* form, and a frame without a src attribute
Frames ==
    { [src |-> <<"t","a","b","1">>], [src |-> <<"t","a","b","2">>],
      [src |-> <<"t","a","b","h","e","a","d">>], [src |-> <<"f","o","r","m">>],
      [name |-> <<"t","a","b">>] }

PostResponse(status_code, frames) ==
    [kind |-> "response", status_code |-> status_code, frames |-> frames]

\* what the server does with the POST
Posts ==
    {Raise("Timeout")}
        \cup {PostResponse(c, f) : c \in {200, 404}, f \in SeqsUpTo(Frames, MaxFrames)}

TextTable == <<PreOpen, LineTHIS, LineA, LineB, PreClose>>

TextZero == <<LineZero>>

\* what the server does with the GET
Gets ==
    {Raise("Timeout"), Response(200, TextTable), Response(200, TextZero),
     Response(404, << >>)}

\* the lines a response text is made of
Lines ==
    {PreOpen, PreClose, LineA, LineB, LineShort, LineTHIS, LineHeader,
     LineBlank, LineZero}

\* the instance as _parse_result may find it: no query made yet, or the
\* temperature of the last one
Instances ==
    {NoAttributes} \cup
        {setattr(NoAttributes, "_last_query_temperature", t) : t \in {0, 1, 300}}

----------------------------------------------------------------------------
(* The life of one instance: queries, and parses of the responses they     *)
(* returned, in any order.                                                 *)

Init ==
    /\ self = NoAttributes
    /\ catdir \in Catalogs
    /\ call = NotCalled
    /\ parsed = NotParsed
    /\ history = << >>
    /\ parse_of = [call |-> 0, at |-> 0]
    /\ heasarc = HeasarcNotCalled

\* a query_lines_async call, entered in the history with its temperature,
\* whether it got as far as building the payload, and the response it returned
Query ==
    /\ Len(history) < MaxCalls
    /\ \E min_frequency \in {Quantity(100, "GHz"), Quantity(1, "s")},
          temperature_for_intensity \in Temperatures,
          get_query_payload \in BOOLEAN,
          post \in {Raise("Timeout"), PostResponse(200, <<[src |-> <<"t","a","b","1">>]>>)},
          get \in {Response(200, TextTable), Response(200, TextZero)} :
          /\ query_lines_async(min_frequency, Quantity(200, "GHz"), -500,
                               Str(<<"C","O">>), temperature_for_intensity, 0,
                               FALSE, get_query_payload, TRUE, post, get)
          /\ history' = Append(history,
                 [temperature |-> temperature_for_intensity,
                  reached |-> call'.outcome # "UnitConversionError",
                  response |-> call'.response])
    /\ UNCHANGED <<catdir, parsed, parse_of, heasarc>>

\* a _parse_result call on the response of one of the calls made so far
Parse ==
    /\ \E i \in 1..Len(history) :
          /\ history[i].response # None
          /\ _parse_result(history[i].response)
          /\ parse_of' = [call |-> i, at |-> Len(history)]
    /\ UNCHANGED <<self, catdir, call, history, heasarc>>

Next == Query \/ Parse

Spec == Init /\ [][Next]_vars

----------------------------------------------------------------------------
(* One query_lines_async call on a fresh instance, over all its inputs.    *)

\* the payload asked for: every combination of the arguments
QueryPayload ==
    /\ call = NotCalled
    /\ \E min_frequency \in Frequencies, max_frequency \in Frequencies,
          molecule \in Molecules, temperature_for_intensity \in Temperatures,
          flags \in {0, 2}, parse_name_locally \in BOOLEAN :
          query_lines_async(min_frequency, max_frequency, -500, molecule,
                            temperature_for_intensity, flags, parse_name_locally,
                            TRUE, TRUE, Raise("Timeout"), Raise("Timeout"))
    /\ UNCHANGED <<catdir, parsed, history, parse_of, heasarc>>

\* the requests made: everything the server may do with them
QueryRequest ==
    /\ call = NotCalled
    /\ \E molecule \in {Str(<<"C","N">>), Str(<<"X","X">>)},
          parse_name_locally \in BOOLEAN, post \in Posts, get \in Gets :
          query_lines_async(Quantity(100, "GHz"), Quantity(200, "GHz"), -500,
                            molecule, 300, 0, parse_name_locally,
                            FALSE, TRUE, post, get)
    /\ UNCHANGED <<catdir, parsed, history, parse_of, heasarc>>

NextQuery == QueryPayload \/ QueryRequest

SpecQuery == Init /\ [][NextQuery]_vars

----------------------------------------------------------------------------
(* One _parse_result call, over the response texts and the instances.      *)

InitParse ==
    /\ self \in Instances
    /\ catdir = Catalog1
    /\ call = NotCalled
    /\ parsed = NotParsed
    /\ history = << >>
    /\ parse_of = [call |-> 0, at |-> 0]
    /\ heasarc = HeasarcNotCalled

ParseText ==
    /\ parsed = NotParsed
    /\ \E text \in SeqsUpTo(Lines, MaxLines) : _parse_result(Response(200, text))
    /\ UNCHANGED <<self, catdir, call, history, parse_of, heasarc>>

SpecParse == InitParse /\ [][ParseText]_vars

----------------------------------------------------------------------------
(* One Heasarc.query_object call, over its keyword arguments.              *)

HeasarcQuery ==
    /\ heasarc = HeasarcNotCalled
    /\ \E mission \in {"integral_rev3_scw", "rosmaster"},
          kwargs \in SUBSET {"radius", "time", "resultmax", "good_isgri",
                             "very_good_isgri", "exposure"},
          reply \in {"table", "Timeout"} :
          Heasarc_query_object("Crab", mission, kwargs, reply)
    /\ UNCHANGED <<self, catdir, call, parsed, history, parse_of>>

SpecHeasarc == Init /\ [][HeasarcQuery]_vars

----------------------------------------------------------------------------
(* What the formulas below read from the state.                            *)

\* the keys of a payload
payload_keys(items) == {items[i][1] : i \in 1..Len(items)}

\* the value a payload holds for a key it has
payload_value(items, key) ==
    items[CHOOSE i \in 1..Len(items) : items[i][1] = key][2]

\* the positions of the columns of a table that have the given name
columns_named(columns, name) == {c \in 1..Len(columns) : columns[c].name = name}

\* the call got past the frequency conversion, to the payload of lines 108-118
reached_payload == call.outcome \notin {"not called", "UnitConversionError"}

----------------------------------------------------------------------------
\* C1: a table returned by _parse_result has its intensity column named
\* LGAIJ, in 1/s, and no column LGINT when the instance's last query
\* temperature is 0; for every other temperature it has the column LGINT, in
\* nm^2 MHz, and no column LGAIJ.
C1_IntensityColumn ==
    parsed.outcome = "table" =>
        LET lgint == columns_named(parsed.table, "LGINT")
            lgaij == columns_named(parsed.table, "LGAIJ")
        IN  IF self["_last_query_temperature"] = 0
            THEN /\ lgint = {}
                 /\ lgaij = {3}
                 /\ parsed.table[3].unit = "1 / s"
            ELSE /\ lgaij = {}
                 /\ lgint = {3}
                 /\ parsed.table[3].unit = "nm2 MHz"

\* a table was returned to an instance whose last query temperature is 0
C1_Witness ==
    /\ parsed.outcome = "table"
    /\ self["_last_query_temperature"] = 0
    /\ Len(parsed.table[3].data) = 2

----------------------------------------------------------------------------
\* C2: in a payload returned under get_query_payload=True, MinNu and MaxNu are
\* both present or both absent; they are absent when neither bound is given;
\* when both are given they are present, MinNu <= MaxNu, and they are the two
\* bounds in GHz, swapped when min_frequency is above max_frequency.
C2_FrequencyKeys ==
    call.outcome = "payload" =>
        LET keys == payload_keys(call.payload)
            lo   == call.args.min_frequency
            hi   == call.args.max_frequency
        IN  /\ ("MinNu" \in keys) <=> ("MaxNu" \in keys)
            /\ (lo = None /\ hi = None) => "MinNu" \notin keys
            /\ (lo # None /\ hi # None) =>
                  LET a  == to_GHz(lo).value
                      b  == to_GHz(hi).value
                      mn == payload_value(call.payload, "MinNu")
                      mx == payload_value(call.payload, "MaxNu")
                  IN  /\ "MinNu" \in keys
                      /\ mn <= mx
                      /\ IF a > b THEN mn = b /\ mx = a ELSE mn = a /\ mx = b

\* a payload built from a wavelength and a frequency that had to be swapped
C2_Witness ==
    /\ call.outcome = "payload"
    /\ call.args.min_frequency = Quantity(200, "GHz")
    /\ call.args.max_frequency = Quantity(2, "mm")
    /\ payload_value(call.payload, "MinNu") = 149896229
    /\ payload_value(call.payload, "MaxNu") = 200000000

----------------------------------------------------------------------------
\* C3: when the response text holds "Zero lines were found", _parse_result
\* raises ValueError before anything is parsed: no HTML parse, no table read,
\* no unit and no column renamed, whatever the last query temperature is.
C3_ZeroLinesRaiseFirst ==
    (/\ parsed.outcome # "not called"
     /\ \E i \in 1..Len(parsed.response.text) :
           str_contains(parsed.response.text[i],
                        <<"Z","e","r","o"," ","l","i","n","e","s"," ",
                          "w","e","r","e"," ","f","o","u","n","d">>))
        => /\ parsed.outcome = "ValueError: Response was empty"
           /\ parsed.steps = << >>
           /\ parsed.table = << >>

\* the message came after a <pre> with a card image in it, which was not read
C3_Witness ==
    /\ parsed.outcome = "ValueError: Response was empty"
    /\ parsed.response.text = <<PreOpen, LineA, LineZero>>
    /\ "_last_query_temperature" \in DOMAIN self

----------------------------------------------------------------------------
\* C4: under parse_name_locally=True, a molecule pattern that matches no name
\* of the catalog directory makes the call fail with ValueError 'No matching
\* species found', before any request is issued.
C4_NoMatchIsValueError ==
    (/\ reached_payload
     /\ call.args.molecule # None
     /\ call.args.parse_name_locally
     /\ \A r \in 1..Len(catdir) :
           ~re_search(call.args.molecule.s, call.args.flags, catdir[r][2]))
        => /\ call.outcome = "ValueError: No matching species found"
           /\ call.requests = << >>

----------------------------------------------------------------------------
\* the tag a 'Molecules' entry starts with
entry_tag(entry) == digits_value(split_first(entry, <<" ">>))

\* the rows of the catalog directory whose name the pattern of the call matches
matching_rows ==
    {r \in 1..Len(catdir) :
        re_search(call.args.molecule.s, call.args.flags, catdir[r][2])}

\* the call looked the molecule up and put a 'Molecules' entry in its payload
looked_up ==
    /\ reached_payload
    /\ call.args.molecule # None
    /\ call.args.parse_name_locally
    /\ "Molecules" \in payload_keys(call.payload)

----------------------------------------------------------------------------
\* the call issued its POST and got a response with a status that is no error
post_answered ==
    /\ call.outcome # "not called"
    /\ Len(call.requests) >= 1
    /\ call.post.kind = "response"
    /\ call.post.status_code < 400

\* the frames of the POST response whose source URL holds 'tab' and not 'head'
table_frames ==
    {i \in 1..Len(call.post.frames) :
        /\ "src" \in DOMAIN call.post.frames[i]
        /\ str_contains(call.post.frames[i].src, <<"t","a","b">>)
        /\ ~str_contains(call.post.frames[i].src, <<"h","e","a","d">>)}

\* the URL the GET is sent to for a frame's source URL
get_url(src) ==
    <<"h","t","t","p","s",":","/","/","c","d","m","s",".","a","s","t","r","o",
      ".","u","n","i","-","k","o","e","l","n",".","d","e","/","/">> \o src

\* C6: the GET goes to the first frame, in document order, whose source URL
\* holds 'tab' and not 'head'; when the POST response has no such frame, or no
\* frame at all, the call raises ValueError 'Did not find table in response'
\* and issues no GET.
C6_FirstTableFrameOrValueError ==
    post_answered =>
        IF table_frames # {}
        THEN LET first == CHOOSE i \in table_frames : \A j \in table_frames : i <= j
             IN  /\ Len(call.requests) = 2
                 /\ call.requests[2].method = "GET"
                 /\ call.requests[2].url = get_url(call.post.frames[first].src)
        ELSE /\ call.outcome = "ValueError: Did not find table in response"
             /\ Len(call.requests) = 1

----------------------------------------------------------------------------
\* the offsets and names of the sixteen fields
FieldOffsets == <<0, 14, 25, 36, 38, 48, 51, 57, 61, 63, 65, 67, 69, 71, 73, 89>>

FieldNames ==
    <<"FREQ", "ERR", "LGINT", "DR", "ELO", "GUP", "TAG", "QNFMT",
      "Ju", "Ku", "vu", "Jl", "Kl", "vl", "F", "name">>

\* the characters of a line from a field's offset up to the next field's
\* offset, the last field running to the end of the line
field_chars(line, f) ==
    LET from == Min(FieldOffsets[f], Len(line))
        upto == IF f < Len(FieldOffsets) THEN Min(FieldOffsets[f + 1], Len(line))
                ELSE Len(line)
    IN  [k \in 1..(upto - from) |-> line[from + k]]

\* the data lines of the text the last _parse_result read, in input order
lines_read == data_lines(soup_find_pre_text(parsed.response.text).lines)

\* the schema is the sixteen offsets, strictly increasing from 0, and the
\* table has the sixteen columns in that order, one row per data line
schema_and_rows ==
    /\ col_starts = FieldOffsets
    /\ FieldOffsets[1] = 0
    /\ \A f \in 1..(Len(FieldOffsets) - 1) : FieldOffsets[f] < FieldOffsets[f + 1]
    /\ parsed.outcome = "table" =>
          /\ Len(parsed.table) = Len(FieldOffsets)
          /\ \A f \in 1..Len(FieldOffsets) :
                /\ parsed.table[f].name
                      = IF f = 3 /\ self["_last_query_temperature"] = 0
                        THEN "LGAIJ" ELSE FieldNames[f]
                /\ Len(parsed.table[f].data) = Len(lines_read)

\* C7, as claimed: with the sixteen offsets, each field's value is exactly the
\* characters of the line from its offset up to the next field's offset, one
\* row per data line in input order.
C7_ValueIsTheSlice ==
    /\ schema_and_rows
    /\ parsed.outcome = "table" =>
          \A f \in 1..Len(FieldOffsets) : \A r \in 1..Len(lines_read) :
              parsed.table[f].data[r] = to_str(field_chars(lines_read[r], f))

\* C7, amended: with the sixteen offsets, each field's value is read from
\* exactly the characters of the line from its offset up to the next field's
\* offset: those characters with the blanks around them stripped, converted
\* to the type of the column (int, float or str; masked when nothing is
\* left), one row per data line in input order.
C7_ValueIsTheSliceConverted ==
    /\ schema_and_rows
    /\ parsed.outcome = "table" =>
          \A f \in 1..Len(FieldOffsets) :
              parsed.table[f].data
                  = convert_column([r \in 1..Len(lines_read) |->
                                       str_strip(field_chars(lines_read[r], f))])

\* a card image and one cut off after QNFMT were read
C7_Witness ==
    /\ parsed.outcome = "table"
    /\ parsed.response.text = <<PreOpen, LineA, LineShort>>
    /\ parsed.table[7].data = <<[t |-> "int", v |-> 18505], [t |-> "int", v |-> -18505]>>
    /\ parsed.table[16].data = <<to_str(<<"H","2","O","+">>), Masked>>

----------------------------------------------------------------------------
\* C8: Heasarc.query_object given a keyword argument that is no parameter of
\* the query and no column of the mission (very_good_isgri) raises ValueError
\* before anything is sent; given only recognised ones (good_isgri) it does
\* not raise that error.
C8_UnknownFilterRefused ==
    heasarc.outcome # "not called" =>
        IF heasarc.kwargs \subseteq query_parameters \cup mission_columns(heasarc.mission)
        THEN heasarc.outcome # "ValueError"
        ELSE heasarc.outcome = "ValueError" /\ heasarc.requests = << >>

\* the call of test_filter_custom_args
C8_Witness ==
    /\ heasarc.outcome = "ValueError"
    /\ heasarc.mission = "integral_rev3_scw"
    /\ heasarc.kwargs = {"radius", "time", "resultmax", "very_good_isgri"}
    /\ heasarc.requests = << >>

----------------------------------------------------------------------------
\* the calls, among the first n of the history, that built their payload
reached_among(n) == {j \in 1..n : history[j].reached}

\* the name the intensity column of the parsed table has
intensity_name == parsed.table[3].name

\* C9: a _parse_result call labels the intensity column by the temperature of
\* the latest query_lines_async call before it that got as far as building
\* its payload (a get_query_payload=True call included), not by the query the
\* parsed response came from; a response parsed right after its own query is
\* labelled by its own temperature.
C9_LabelFollowsLatestQuery ==
    parsed.outcome = "table" =>
        LET before == reached_among(parse_of.at)
            latest == CHOOSE j \in before : \A k \in before : j >= k
        IN  /\ before # {}
            /\ intensity_name
                  = IF history[latest].temperature = 0 THEN "LGAIJ" ELSE "LGINT"
            /\ parse_of.call = latest =>
                  intensity_name
                      = IF history[parse_of.call].temperature = 0
                        THEN "LGAIJ" ELSE "LGINT"

\* query A at temperature 0, then a get_query_payload=True call B at 300, then
\* the parse of A's response: it is labelled LGINT, by B's temperature
C9_Witness ==
    /\ parsed.outcome = "table"
    /\ parse_of = [call |-> 1, at |-> 2]
    /\ history[1].temperature = 0
    /\ history[2].temperature = 300
    /\ history[2].response = None
    /\ call.args.get_query_payload
    /\ intensity_name = "LGINT"

----------------------------------------------------------------------------
\* the methods of the requests of the call, in the order they were issued
methods == [i \in 1..Len(call.requests) |-> call.requests[i].method]

====
